---- MODULE Spec2Model ----
(***************************************************************************)
(* Model of scripts/effect-interface.js: EffectInterface (the issuer side, *)
(* which classifies an effect name and submits relay requests) and         *)
(* EffectHandler (the privileged side, which creates and deletes effect    *)
(* records on actors).                                                     *)
(*                                                                         *)
(* Strings are sequences of one-character strings, so that the regular     *)
(* expression of isStatusEffect, Number() and the template literal that    *)
(* composes "Exhaustion <level>" are computed, not assumed.  The three     *)
(* non-string JavaScript values that reach comparisons are one-element     *)
(* sequences whose element is not a character.                             *)
(***************************************************************************)
EXTENDS Integers, Sequences, FiniteSets, TLC

Undefined == <<"?undefined">>
Null == <<"?null">>
False == <<"?false">>

\* ------------------------------------------------------------ bounds
\* Most effect records the actors hold together: where single effects are
\* added, and where composite effects (a parent and its sub-effects) are.
MaxEffects == 2
MaxComposite == 3
\* CONFIG.statusEffects' exhaustion entry: levels (read at line 248).
MaxLevel == 4

\* ------------------------------------------------------------ strings
DigitChars == <<"0", "1", "2", "3", "4", "5", "6", "7", "8", "9">>
Digit == {DigitChars[i] : i \in 1..10}
Letter ==
  {"a", "b", "c", "d", "e", "f", "g", "h", "i", "j", "k", "l", "m", "n", "o",
   "p", "q", "r", "s", "t", "u", "v", "w", "x", "y", "z", "A", "B", "C", "D",
   "E", "F", "G", "H", "I", "J", "K", "L", "M", "N", "O", "P", "Q", "R", "S",
   "T", "U", "V", "W", "X", "Y", "Z"}
\* \w, \s and \d of the regular expression.
IsWord(ch) == ch \in Letter \cup Digit \cup {"_"}
IsSpace(ch) == ch = " "
IsDigit(ch) == ch \in Digit

Min(a, b) == IF a < b THEN a ELSE b
Max(a, b) == IF a < b THEN b ELSE a
\* Math.clamped(value, min, max)
Clamped(v, lo, hi) == Min(Max(v, lo), hi)

DigitValue(ch) == (CHOOSE i \in 1..10 : DigitChars[i] = ch) - 1

RECURSIVE DigitsValue(_)
DigitsValue(ds) ==
  IF ds = <<>> THEN 0
  ELSE 10 * DigitsValue(SubSeq(ds, 1, Len(ds) - 1)) + DigitValue(ds[Len(ds)])

\* Number(s) for a string the regular expression captured: [+-]?\d+
Number(s) ==
  IF s[1] = "-" THEN 0 - DigitsValue(Tail(s))
  ELSE IF s[1] = "+" THEN DigitsValue(Tail(s))
  ELSE DigitsValue(s)

\* `${n}` for an integer n >= 0
RECURSIVE NumToString(_)
NumToString(n) ==
  IF n < 10 THEN <<DigitChars[n + 1]>>
  ELSE NumToString(n \div 10) \o <<DigitChars[(n % 10) + 1]>>

\* Length of the longest prefix of s whose characters all satisfy the class.
RECURSIVE WordRun(_)
WordRun(s) == IF s # <<>> /\ IsWord(s[1]) THEN 1 + WordRun(Tail(s)) ELSE 0
RECURSIVE SpaceRun(_)
SpaceRun(s) == IF s # <<>> /\ IsSpace(s[1]) THEN 1 + SpaceRun(Tail(s)) ELSE 0

AllDigits(s) == s # <<>> /\ \A i \in 1..Len(s) : IsDigit(s[i])

\* effectName.match(/^(\w+)(?:\s*([+-]?\d+))?$/) ?? []  as [word, number]:
\* the greedy \w+ takes the whole leading run of word characters (a shorter
\* one would leave a word character that only \d+$ could take, and then the
\* run reaches the end); what follows is empty, or spaces, an optional sign
\* and digits to the end.
RegexMatch(effectName) ==
  LET k == WordRun(effectName)
      rest == SubSeq(effectName, k + 1, Len(effectName))
      r2 == SubSeq(rest, SpaceRun(rest) + 1, Len(rest))
      signed == r2 # <<>> /\ r2[1] \in {"+", "-"}
      r3 == IF signed THEN Tail(r2) ELSE r2
  IN  IF k = 0 THEN [word |-> Undefined, number |-> Undefined]
      ELSE IF rest = <<>> THEN [word |-> SubSeq(effectName, 1, k), number |-> Undefined]
      ELSE IF AllDigits(r3) THEN [word |-> SubSeq(effectName, 1, k), number |-> r2]
      ELSE [word |-> Undefined, number |-> Undefined]

\* ------------------------------------------------------------ names
Bless == <<"B", "l", "e", "s", "s">>
Prone == <<"P", "r", "o", "n", "e">>
Exhaustion == <<"E", "x", "h", "a", "u", "s", "t", "i", "o", "n">>
Aid == <<"A", "i", "d">>
Ward == <<"W", "a", "r", "d">>
Combo == <<"C", "o", "m", "b", "o">>
Knock == <<"K", "n", "o", "c", "k">>
Pick == <<"P", "i", "c", "k">>
Ghost == <<"G", "h", "o", "s", "t">>
Nope == <<"N", "o", "p", "e">>
Loop == <<"L", "o", "o", "p">>
Turn == <<"T", "u", "r", "n">>
MageArmor == <<"M", "a", "g", "e", " ", "A", "r", "m", "o", "r">>

\* ------------------------------------------------------------ platform data
\* CONFIG.statusEffects: logical id, displayed name, fixed identity token.
StatusEffects ==
  << [id |-> "prone", name |-> Prone, _id |-> <<"d", "n", "d", "5", "e", "p", "r", "o", "n", "e">>],
     [id |-> "exhaustion", name |-> Exhaustion,
      _id |-> <<"d", "n", "d", "5", "e", "e", "x", "h", "a", "u", "s", "t", "i", "o", "n">>] >>

StatusById(id) == StatusEffects[CHOOSE i \in 1..Len(StatusEffects) : StatusEffects[i].id = id]
ProneId == StatusById("prone")._id
ExhaustionId == StatusById("exhaustion")._id

\* Actors a UUID resolves to, and one UUID that resolves to nothing.
Actors == {"a1", "a2"}
Bogus == "bogus"
Uuids == Actors \cup {Bogus}
\* FoundryHelpers.getActorByUuid: the actor, or nothing.
Resolves(uuid) == uuid \in Actors

\* ------------------------------------------------------------ effect data
\* One shape for effect definitions and effect objects in transit.
EffectData(name, cat, nested, subs) ==
  [_id |-> Undefined, name |-> name, convenient |-> TRUE, origin |-> Undefined,
   disabled |-> FALSE, statuses |-> {}, level |-> -1, original |-> -1,
   nested |-> nested, subs |-> subs, cat |-> cat]

\* What Array.find returns when nothing matches.
NoEffect == EffectData(Undefined, "none", <<>>, <<>>)
Found(e) == e.name # Undefined

\* game.dfreds.effects.all: the built-in catalog.
AllEffects ==
  << EffectData(Bless, "builtin", <<>>, <<>>),
     EffectData(Prone, "builtin", <<>>, <<>>),
     EffectData(Aid, "builtin", <<>>, <<>>),
     EffectData(Combo, "builtin", <<>>,
                << EffectData(Aid, "sub", <<>>, <<>>), EffectData(Ward, "sub", <<>>, <<>>) >>),
     EffectData(Knock, "builtin", <<>>, << EffectData(Prone, "sub", <<>>, <<>>) >>),
     EffectData(Pick, "builtin", <<Bless, Ghost>>, <<>>),
     EffectData(Loop, "builtin", <<>>, << EffectData(Turn, "sub", <<Loop, Aid>>, <<>>) >>) >>

\* CustomEffectsHandler.getCustomEffects(): the user-authored catalog.
CustomEffects == << EffectData(Bless, "custom", <<>>, <<>>) >>

\* Array.prototype.find over a sequence of effect data, by name.
FindByName(list, effectName) ==
  IF \E i \in 1..Len(list) : list[i].name = effectName
  THEN list[CHOOSE i \in 1..Len(list) :
              /\ list[i].name = effectName
              /\ \A j \in 1..(i - 1) : list[j].name # effectName]
  ELSE NoEffect

findCustomEffectByName(effectName) == FindByName(CustomEffects, effectName)

findEffectByName_Fallback(effectName) ==
  IF Found(findCustomEffectByName(effectName)) THEN findCustomEffectByName(effectName)
  ELSE IF Found(FindByName(AllEffects, effectName)) THEN FindByName(AllEffects, effectName)
  ELSE AllEffects[1]

findEffectByName_BuiltinFirst(effectName) ==
  IF Found(FindByName(AllEffects, effectName)) THEN FindByName(AllEffects, effectName)
  ELSE findCustomEffectByName(effectName)

findEffectByName(effectName) ==
  IF Found(findCustomEffectByName(effectName)) THEN findCustomEffectByName(effectName)
  ELSE FindByName(AllEffects, effectName)

\* The descriptor isStatusEffect returns; is = FALSE stands for `false`.
NoStatus == [is |-> FALSE, id |-> "", staticID |-> Undefined, isExhaustion |-> False, _id |-> Undefined]

isStatusEffect_AnySetting(modifyStatusEffects, effectName) ==
  LET m == RegexMatch(effectName)
      hit == {i \in 1..Len(StatusEffects) : StatusEffects[i].name = m.word}
      checkTranslationsName == StatusEffects[CHOOSE i \in hit : \A j \in hit : i <= j]
  IN  IF hit = {} THEN NoStatus
      ELSE [is |-> TRUE,
            id |-> checkTranslationsName.id,
            staticID |-> checkTranslationsName._id,
            isExhaustion |->
              IF checkTranslationsName._id = ExhaustionId
              THEN (IF m.number = Undefined THEN Null ELSE m.number)
              ELSE False,
            _id |-> Undefined]

isStatusEffect(modifyStatusEffects, effectName) ==
  LET m == RegexMatch(effectName)
      hit == {i \in 1..Len(StatusEffects) : StatusEffects[i].name = m.word}
      checkTranslationsName == StatusEffects[CHOOSE i \in hit : \A j \in hit : i <= j]
  IN  IF modifyStatusEffects # "none" THEN NoStatus
      ELSE IF hit = {} THEN NoStatus
      ELSE [is |-> TRUE,
            id |-> checkTranslationsName.id,
            staticID |-> checkTranslationsName._id,
            isExhaustion |->
              IF checkTranslationsName._id = ExhaustionId
              THEN (IF m.number = Undefined THEN Null ELSE m.number)
              ELSE False,
            _id |-> Undefined]

\* ------------------------------------------------------------ the store
\* An effect record on an actor. core is history: the record was created by
\* an operation of this module (not by the game system or another module).
ToInstance(e, id) ==
  [_id |-> id, name |-> e.name, convenient |-> e.convenient, origin |-> e.origin,
   disabled |-> e.disabled, statuses |-> e.statuses, level |-> e.level,
   original |-> e.original, core |-> TRUE]

IdsOf(list) == {list[i]._id : i \in 1..Len(list)}
RandomId(k) == <<"#">> \o NumToString(k)
\* The platform's id for a record created without keepId: one not in use.
FreshId(list) ==
  RandomId(CHOOSE k \in 1..(Len(list) + 1) :
             /\ RandomId(k) \notin IdsOf(list)
             /\ \A j \in 1..(k - 1) : RandomId(j) \in IdsOf(list))

RemoveAt(list, i) == SubSeq(list, 1, i - 1) \o SubSeq(list, i + 1, Len(list))
First(S) == CHOOSE i \in S : \A j \in S : i <= j

\* The state an operation works on: every actor's effect list, and what the
\* operation has produced so far (notifications, relay calls, an exception).
Throw(w) == [w EXCEPT !.threw = TRUE]
Notify(w, what) == [w EXCEPT !.notes = Append(@, what)]
Relay(w, op) == [w EXCEPT !.relays = Append(@, op)]

\* ActiveEffect.implementation.create(effect, {parent, keepId}) and
\* actor.createEmbeddedDocuments. With keepId and an id the actor already
\* holds, the platform either rejects the creation or stores the record
\* (x.dup): the Applier is what keeps identity tokens exclusive.
Create(w, x, uuid, e, keepId) ==
  LET list == w.eff[uuid]
      keep == keepId /\ e._id # Undefined
      id == IF keep THEN e._id ELSE FreshId(list)
  IN  IF w.threw THEN w
      ELSE IF keep /\ id \in IdsOf(list) /\ x.dup = "reject" THEN Throw(w)
      ELSE [w EXCEPT !.eff[uuid] = Append(list, ToInstance(e, id))]

\* ActiveEffect.implementation.fromStatusEffect(statusId)
fromStatusEffect(statusId) ==
  [EffectData(StatusById(statusId).name, "status", <<>>, <<>>) EXCEPT
     !._id = StatusById(statusId)._id, !.statuses = {statusId}, !.convenient = FALSE]

\* EffectHelpers.isConvenient, EffectHelpers.getId
isConvenient(activeEffect) == activeEffect.convenient
getId(name) == <<"C", "E", ":">> \o name

\* actor.appliedEffects: the indices of the effects that are not disabled.
Applied(list) == {i \in 1..Len(list) : ~list[i].disabled}
Truthy(v) == v \notin {Undefined, Null, False, <<>>}

\* ------------------------------------------------------------ EffectHandler
hasEffectApplied_AnyEffect(eff, effectName, uuid) ==
  /\ Resolves(uuid)
  /\ \E i \in Applied(eff[uuid]) : eff[uuid][i].name = effectName

hasEffectApplied(eff, effectName, uuid) ==
  /\ Resolves(uuid)
  /\ \E i \in Applied(eff[uuid]) :
       isConvenient(eff[uuid][i]) /\ eff[uuid][i].name = effectName

H_removeEffect_AnyOrigin(w, effectID, uuid, origin) ==
  IF w.threw THEN w
  ELSE IF ~Resolves(uuid) THEN Throw(w)
  ELSE LET list == w.eff[uuid]
           hits == {i \in Applied(list) :
                      /\ isConvenient(list[i])
                      /\ (list[i]._id = effectID \/ list[i].name = effectID)}
       IN  IF hits = {} THEN w
           ELSE [w EXCEPT !.eff[uuid] = RemoveAt(list, First(hits))]

H_removeEffect_All(w, effectID, uuid, origin) ==
  IF w.threw THEN w
  ELSE IF ~Resolves(uuid) THEN Throw(w)
  ELSE LET list == w.eff[uuid]
           hits == {i \in Applied(list) :
                      /\ isConvenient(list[i])
                      /\ (list[i]._id = effectID \/ list[i].name = effectID)
                      /\ (Truthy(origin) => list[i].origin = origin)}
           ids == {list[i]._id : i \in hits}
       IN  [w EXCEPT !.eff[uuid] = SelectSeq(list, LAMBDA e : e._id \notin ids)]

H_removeEffect(w, effectID, uuid, origin) ==
  IF w.threw THEN w
  ELSE IF ~Resolves(uuid) THEN Throw(w)
  ELSE LET list == w.eff[uuid]
           hits == {i \in Applied(list) :
                      /\ isConvenient(list[i])
                      /\ (list[i]._id = effectID \/ list[i].name = effectID)
                      /\ (Truthy(origin) => list[i].origin = origin)}
       IN  IF hits = {} THEN w
           ELSE [w EXCEPT !.eff[uuid] = RemoveAt(list, First(hits))]

hasNestedEffects(effect) == Len(effect.nested) > 0

getNestedEffectSelection_Default(effect, x) ==
  LET existing == {i \in 1..Len(effect.nested) : Found(findEffectByName(effect.nested[i]))}
      listed == {i \in existing : effect.nested[i] = x.choice}
  IN  IF listed # {} THEN findEffectByName(effect.nested[First(listed)])
      ELSE IF existing # {} THEN findEffectByName(effect.nested[First(existing)])
      ELSE NoEffect

\* _getNestedEffectSelection: the dialog answers x.choice (Undefined when it
\* is closed); the result is the listed, existing effect of that name.
getNestedEffectSelection(effect, x) ==
  LET listed == {i \in 1..Len(effect.nested) :
                   /\ Found(findEffectByName(effect.nested[i]))
                   /\ effect.nested[i] = x.choice}
  IN  IF listed = {} THEN NoEffect ELSE findEffectByName(effect.nested[First(listed)])

RECURSIVE H_addEffect(_, _, _, _, _, _)
RECURSIVE I_addEffectWith(_, _, _, _, _)
RECURSIVE AddSubEffects(_, _, _, _, _, _)

\* EffectHandler.addEffect({effect, uuid, origin, overlay, isStatusEffect})
H_addEffect(w, x, effect, uuid, origin, desc) ==
  IF w.threw THEN w
  ELSE IF ~Resolves(uuid) THEN Throw(w)
  ELSE IF desc.is THEN
    LET list == w.eff[uuid]
        existing == {i \in Applied(list) : list[i]._id = effect._id}
        w1 == IF existing # {}
              THEN H_removeEffect(w, list[First(existing)]._id, uuid, Undefined)
              ELSE w
    \* actor.token?.object.hasActiveHUD || actor.getActiveTokens()[0].hasActiveHUD
    \* reads a property of nothing when the actor has no token object on the
    \* viewed canvas (x.onCanvas)
    IN  IF ~x.onCanvas THEN Throw(w1)
        ELSE Create(w1, x, uuid, effect, TRUE)
  ELSE
    AddSubEffects(Create(w, x, uuid, effect, FALSE), x, effect.subs, 1, uuid,
                  getId(effect.name))

\* for (const subEffect of subEffects) await addEffectWith({effectData, uuid, origin})
AddSubEffects(w, x, subEffects, i, uuid, origin) ==
  IF w.threw \/ i > Len(subEffects) THEN w
  ELSE AddSubEffects(I_addEffectWith(w, x, subEffects[i], uuid, origin),
                     x, subEffects, i + 1, uuid, origin)

\* EffectInterface.addEffectWith({effectData, uuid, origin, overlay})
I_addEffectWith(w, x, effectData, uuid, origin) ==
  LET desc == isStatusEffect(x.setting, effectData.name)
      statusEffect ==
        [effectData EXCEPT !._id = fromStatusEffect(desc.id)._id,
                           !.statuses = fromStatusEffect(desc.id).statuses,
                           !.convenient = TRUE]
      created == [effectData EXCEPT !.origin = origin, !.convenient = TRUE]
      effect == IF hasNestedEffects(created)
                THEN getNestedEffectSelection(created, x)
                ELSE created
  IN  IF w.threw THEN w
      ELSE IF ~Found(effectData) THEN Notify(w, "noData")
      ELSE IF desc.is THEN
        (IF ~Resolves(uuid) THEN Notify(w, "noActor")
         ELSE H_addEffect(Relay(w, "addEffect"), x, statusEffect, uuid, origin, desc))
      ELSE IF ~Found(effect) THEN w
      ELSE IF ~Resolves(uuid) THEN Notify(w, "noActor")
      ELSE H_addEffect(Relay(w, "addEffect"), x, effect, uuid, origin, NoStatus)

RECURSIVE H_toggleEffect_Unpinned(_, _, _, _, _, _, _)
H_toggleEffect_Unpinned(w, x, effectName, uuids, i, desc, active) ==
  IF w.threw \/ i > Len(uuids) THEN w
  ELSE
    LET uuid == uuids[i]
        effect == findEffectByName(effectName)
        list == w.eff[uuid]
        existing == {k \in 1..Len(list) : list[k].statuses = {desc.id}}
        ids == {list[k]._id : k \in existing}
        kept == SelectSeq(list, LAMBDA e : e._id \notin ids)
        w1 ==
          IF ~desc.is THEN
            (IF hasEffectApplied(w.eff, effectName, uuid)
             THEN H_removeEffect(w, Undefined, uuid, Undefined)
             ELSE IF ~Found(effect) THEN Throw(w)
             ELSE H_addEffect(w, x, effect, uuid, Undefined, NoStatus))
          ELSE IF ~Resolves(uuid) THEN w
          ELSE IF existing # {} THEN [w EXCEPT !.eff[uuid] = kept]
          ELSE Create(w, x, uuid, fromStatusEffect(desc.id), TRUE)
    IN  H_toggleEffect_Unpinned(w1, x, effectName, uuids, i + 1, desc, active)

\* for (const uuid of uuids) of EffectHandler.toggleEffect
RECURSIVE H_toggleEffect(_, _, _, _, _, _, _)
H_toggleEffect(w, x, effectName, uuids, i, desc, active) ==
  IF w.threw \/ i > Len(uuids) THEN w
  ELSE
    LET uuid == uuids[i]
        effect == findEffectByName(effectName)
        list == w.eff[uuid]
        statusId == desc.id
        \* with a static _id in the descriptor, the effect of that id;
        \* otherwise every single-status effect that has this status
        existing ==
          IF desc._id # Undefined
          THEN {k \in 1..Len(list) : list[k]._id = desc._id}
          ELSE {k \in 1..Len(list) : list[k].statuses = {statusId}}
        ids == {list[k]._id : k \in existing}
        \* actor.deleteEmbeddedDocuments('ActiveEffect', existing)
        kept == SelectSeq(list, LAMBDA e : e._id \notin ids)
        w1 ==
          IF ~desc.is THEN
            (IF hasEffectApplied(w.eff, effectName, uuid)
             THEN H_removeEffect(w, Undefined, uuid, Undefined)
             ELSE IF ~Found(effect) THEN Throw(w)
             ELSE H_addEffect(w, x, effect, uuid, Undefined, NoStatus))
          ELSE IF ~Resolves(uuid) THEN w
          ELSE IF existing # {} THEN
            (IF active = "true" THEN w ELSE [w EXCEPT !.eff[uuid] = kept])
          ELSE IF active = "false" THEN w
          ELSE Create(w, x, uuid, fromStatusEffect(statusId), TRUE)
    IN  H_toggleEffect(w1, x, effectName, uuids, i + 1, desc, active)

\* ------------------------------------------------------------ EffectInterface
\* EffectInterface.toggleEffect(effectName, {overlay, uuids})
I_toggleEffect(w, x, effectName, uuidsGiven) ==
  LET uuids == IF Len(uuidsGiven) = 0 THEN x.selected ELSE uuidsGiven
      desc == isStatusEffect(x.setting, effectName)
      found == findEffectByName(effectName)
      effect == IF hasNestedEffects(found) THEN getNestedEffectSelection(found, x) ELSE found
  IN  IF Len(uuids) = 0 THEN Notify(w, "noTarget")
      ELSE IF desc.is THEN
        H_toggleEffect(Relay([w EXCEPT !.path = "status"], "toggleEffect"),
                       x, effectName, uuids, 1, desc, "undefined")
      ELSE IF ~Found(found) THEN Notify(w, "notFound")
      ELSE IF ~Found(effect) THEN w
      ELSE H_toggleEffect(Relay([w EXCEPT !.path = effect.cat], "toggleEffect"),
                          x, effect.name, uuids, 1, desc, "undefined")

I_removeEffect_Direct(w, x, effectName, uuid, origin) ==
  LET desc == isStatusEffect(x.setting, effectName)
      found == findEffectByName(effectName)
      effect == IF hasNestedEffects(found) THEN getNestedEffectSelection(found, x) ELSE found
  IN  IF desc.is THEN
        (IF ~Resolves(uuid) THEN Notify(w, "noActor")
         ELSE H_removeEffect([w EXCEPT !.path = "status"], desc.staticID, uuid, origin))
      ELSE IF ~Found(found) THEN Notify(w, "notFound")
      ELSE IF ~Found(effect) THEN w
      ELSE IF ~Resolves(uuid) THEN Notify(w, "noActor")
      ELSE H_removeEffect([w EXCEPT !.path = effect.cat], effect.name, uuid, origin)

\* EffectInterface.removeEffect({effectName, uuid, origin})
I_removeEffect(w, x, effectName, uuid, origin) ==
  LET desc == isStatusEffect(x.setting, effectName)
      found == findEffectByName(effectName)
      effect == IF hasNestedEffects(found) THEN getNestedEffectSelection(found, x) ELSE found
  IN  IF desc.is THEN
        (IF ~Resolves(uuid) THEN Notify(w, "noActor")
         ELSE H_removeEffect(Relay([w EXCEPT !.path = "status"], "removeEffect"),
                             desc.staticID, uuid, origin))
      ELSE IF ~Found(found) THEN Notify(w, "notFound")
      ELSE IF ~Found(effect) THEN w
      ELSE IF ~Resolves(uuid) THEN Notify(w, "noActor")
      ELSE H_removeEffect(Relay([w EXCEPT !.path = effect.cat], "removeEffect"),
                          effect.name, uuid, origin)

NewExhaustionLevel_Relative(currentExhaustionlevel, targetExhaustionLevel) ==
  IF targetExhaustionLevel = Null
  THEN Min(currentExhaustionlevel + 1, MaxLevel)
  ELSE Clamped(currentExhaustionlevel + Number(targetExhaustionLevel), 0, MaxLevel)

\* newExhaustionLevel of EffectInterface.addEffect
NewExhaustionLevel(currentExhaustionlevel, targetExhaustionLevel) ==
  IF targetExhaustionLevel = Null
  THEN Min(currentExhaustionlevel + 1, MaxLevel)
  ELSE IF \E i \in 1..Len(targetExhaustionLevel) : targetExhaustionLevel[i] \in {"+", "-"}
  THEN Clamped(currentExhaustionlevel + Number(targetExhaustionLevel), 0, MaxLevel)
  ELSE Clamped(Number(targetExhaustionLevel), 0, MaxLevel)

\* EffectInterface.addEffect({effectName, uuid, origin, overlay, metadata})
I_addEffect(w, x, effectName, uuid, origin) ==
  LET desc == isStatusEffect(x.setting, effectName)
      list == w.eff[uuid]
      held == {i \in Applied(list) : list[i]._id = desc.staticID}
      heldId == IF held = {} THEN Undefined ELSE list[First(held)]._id
      removed ==
        IF held = {} THEN w
        ELSE H_removeEffect(Relay(w, "removeEffect"), heldId, uuid, Undefined)
      \* the status path
      statusEffect == [fromStatusEffect(desc.id) EXCEPT !.convenient = TRUE]
      \* the exhaustion path
      newExhaustionLevel == NewExhaustionLevel(x.exhaustion, desc.isExhaustion)
      name == Exhaustion \o <<" ">> \o NumToString(newExhaustionLevel)
      exhaustionEffect ==
        [fromStatusEffect(desc.id) EXCEPT !.convenient = TRUE,
                                          !.level = newExhaustionLevel,
                                          !.original = x.exhaustion,
                                          !.name = name]
      \* the catalog path
      found == findEffectByName(effectName)
      effect == IF hasNestedEffects(found) THEN getNestedEffectSelection(found, x) ELSE found
  IN  IF ~Resolves(uuid) THEN Throw(w)
      ELSE IF desc.is /\ desc.isExhaustion = False THEN
        H_addEffect(Relay([removed EXCEPT !.path = "status"], "addEffect"),
                    x, statusEffect, uuid, origin, desc)
      ELSE IF desc.is THEN
        (IF newExhaustionLevel = 0
         THEN H_removeEffect(
                Relay([w EXCEPT !.path = "exhaustion", !.lvl = 0], "removeEffect"),
                heldId, uuid, Undefined)
         ELSE H_addEffect(
                Relay([removed EXCEPT !.path = "exhaustion", !.lvl = newExhaustionLevel],
                      "addEffect"),
                x, exhaustionEffect, uuid, origin, desc))
      ELSE IF ~Found(found) THEN Notify(w, "notFound")
      ELSE IF ~Found(effect) THEN w
      ELSE H_addEffect(Relay([w EXCEPT !.path = effect.cat], "addEffect"),
                       x, effect, uuid, origin, desc)

\* ------------------------------------------------------------ state
VARIABLES
  effects,   \* actor -> the sequence of effect records it holds
  setting,   \* Settings.modifyStatusEffects
  last,      \* the operation that ran last: its arguments and what it produced
  calls,     \* issuer -> its addEffect call in flight, and how far it has come
  stack      \* the add invocations of one addEffect that have not returned

vars == <<effects, setting, last, calls, stack>>

\* The peers that issue operations at the same time.
Issuers == {"p1", "p2"}
Idle ==
  [pc |-> "idle", name |-> Undefined, base |-> -1, lvl |-> -1, heldId |-> Undefined,
   effect |-> NoEffect, threw |-> FALSE]

\* effect records that exist before any operation of this module ran: a
\* condition the game system set from the token HUD, and an effect of an item
ForeignProne ==
  [_id |-> ProneId, name |-> Prone, convenient |-> FALSE, origin |-> Undefined,
   disabled |-> FALSE, statuses |-> {"prone"}, level |-> -1, original |-> -1,
   core |-> FALSE]
ForeignBless ==
  [_id |-> <<"i", "t", "e", "m">>, name |-> Bless, convenient |-> FALSE,
   origin |-> <<"I", "t", "e", "m">>, disabled |-> FALSE, statuses |-> {},
   level |-> -1, original |-> -1, core |-> FALSE]

InitialEffects == {<<>>, <<ForeignProne>>, <<ForeignBless>>}

NoOp ==
  [op |-> "none", name |-> Undefined, uuids |-> <<>>, origin |-> Undefined,
   active |-> "undefined", exhaustion |-> 0, choice |-> Undefined, before |-> {},
   notes |-> <<>>, relays |-> <<>>, threw |-> FALSE, path |-> "", lvl |-> -1,
   changed |-> FALSE]

Init ==
  /\ \E l \in InitialEffects : effects = [a \in Actors |-> IF a = "a1" THEN l ELSE <<>>]
  /\ setting \in {"none", "replace"}
  /\ last = NoOp
  /\ calls = [p \in Issuers |-> Idle]
  /\ stack = <<>>

Start == [eff |-> effects, notes |-> <<>>, relays |-> <<>>, threw |-> FALSE,
          path |-> "", lvl |-> -1]

RECURSIVE SumLen(_, _)
SumLen(eff, S) ==
  IF S = {} THEN 0
  ELSE LET a == CHOOSE b \in S : TRUE IN Len(eff[a]) + SumLen(eff, S \ {a})

\* The bound of the model: the records the actors hold together.
Bounded(most) == SumLen(effects', Actors) <= most

\* The step every operation ends with: the store takes the result, and last
\* records the call and what it produced.
Finish(w, op, name, uuids, origin, active, exhaustion, choice, before) ==
  /\ effects' = w.eff
  /\ last' = [op |-> op, name |-> name, uuids |-> uuids, origin |-> origin,
              active |-> active, exhaustion |-> exhaustion, choice |-> choice,
              before |-> before,
              notes |-> w.notes, relays |-> w.relays, threw |-> w.threw,
              path |-> w.path, lvl |-> w.lvl, changed |-> w.eff # effects]
  /\ UNCHANGED <<setting, calls, stack>>

Inputs(choice, dup, exhaustion, selected, onCanvas) ==
  [setting |-> setting, choice |-> choice, dup |-> dup, exhaustion |-> exhaustion,
   selected |-> selected, onCanvas |-> onCanvas]

\* What the nested-effect dialog can answer for this effect name.
Choices(effectName) ==
  LET e == findEffectByName(effectName)
  IN  IF Found(e) /\ hasNestedEffects(e)
      THEN {Undefined} \cup {e.nested[i] : i \in 1..Len(e.nested)}
      ELSE {Undefined}
\* What actor.system.attributes.exhaustion can read for this effect name.
Levels(effectName) ==
  IF RegexMatch(effectName).word = Exhaustion THEN 0..MaxLevel ELSE {0}
\* What the platform can do with a kept id the actor already holds: only an
\* actor that holds a fixed identity token can meet the case.
DupOutcomes(uuid) ==
  IF Resolves(uuid) /\ IdsOf(effects[uuid]) \cap {ProneId, ExhaustionId} # {}
  THEN {"append", "reject"}
  ELSE {"reject"}
\* Whether the actor has a token object on the viewed canvas: read only where
\* the effect, or a sub-effect of it, is added as a status effect.
AddsStatus(effectName) ==
  \/ isStatusEffect(setting, effectName).is
  \/ \E i \in 1..Len(findEffectByName(effectName).subs) :
       isStatusEffect(setting, findEffectByName(effectName).subs[i].name).is
OnCanvas(effectName) == IF AddsStatus(effectName) THEN BOOLEAN ELSE {TRUE}

AppliedOn(eff, effectName, uuids) ==
  {uuids[i] : i \in {j \in 1..Len(uuids) : hasEffectApplied(eff, effectName, uuids[j])}}

\* ------------------------------------------------------------ operations
\* last.uuids of a toggle: the targets it resolved (its argument, or the
\* actors of the selected tokens).
ToggleEffect(effectName, uuids, selected, choice, dup) ==
  Finish(I_toggleEffect(Start, Inputs(choice, dup, 0, selected, TRUE), effectName, uuids),
         "toggleEffect", effectName, IF uuids = <<>> THEN selected ELSE uuids,
         Undefined, "undefined", 0, choice,
         AppliedOn(effects, effectName, IF uuids = <<>> THEN selected ELSE uuids))

AddEffect(effectName, uuid, origin, exhaustion, choice, dup, onCanvas) ==
  Finish(I_addEffect(Start, Inputs(choice, dup, exhaustion, <<>>, onCanvas),
                     effectName, uuid, origin),
         "addEffect", effectName, <<uuid>>, origin, "undefined", exhaustion, choice, {})

RemoveEffect(effectName, uuid, origin, choice) ==
  Finish(I_removeEffect(Start, Inputs(choice, "reject", 0, <<>>, TRUE),
                        effectName, uuid, origin),
         "removeEffect", effectName, <<uuid>>, origin, "undefined", 0, choice, {})

AddEffectWith(effectData, uuid, origin, choice, dup, onCanvas) ==
  Finish(I_addEffectWith(Start, Inputs(choice, dup, 0, <<>>, onCanvas),
                         effectData, uuid, origin),
         "addEffectWith", effectData.name, <<uuid>>, origin, "undefined", 0, choice, {})

\* The relay's registered operations, called directly (socketlib's
\* executeAsGM('removeEffect', ...), executeAsGM('toggleEffect', ...)).
RelayRemoveEffect(effectID, uuid, origin) ==
  Finish(H_removeEffect(Relay(Start, "removeEffect"), effectID, uuid, origin),
         "relay.removeEffect", effectID, <<uuid>>, origin, "undefined", 0, Undefined, {})

RelayToggleEffect(effectName, uuids, active, dup) ==
  Finish(H_toggleEffect(Relay(Start, "toggleEffect"), Inputs(Undefined, dup, 0, <<>>, TRUE),
                        effectName, uuids, 1, isStatusEffect(setting, effectName), active),
         "relay.toggleEffect", effectName, uuids, Undefined, active, 0, Undefined,
         AppliedOn(effects, effectName, uuids))

\* ------------------------------------------------------------ inputs
Item == <<"I", "t", "e", "m">>
Actives == {"undefined", "true", "false"}
Targets == {"a1", Bogus}
TargetLists == {<<>>, <<"a1">>, <<"a1", Bogus>>}
Selections == {<<>>, <<"a1">>}

\* Single effects: a catalog effect in both catalogs, a status effect that is
\* in the catalog too, a nested effect, and two names that are nowhere.
EffectNames == {Bless, Prone, Pick, Nope, MageArmor}
EffectDatas ==
  {NoEffect, EffectData(Aid, "data", <<>>, <<>>), EffectData(Prone, "data", <<>>, <<>>),
   EffectData(Pick, "data", <<Bless, Ghost>>, <<>>)}
\* What the nested-effect dialog can answer for this effect data.
DataChoices(effectData) ==
  {Undefined} \cup {effectData.nested[i] : i \in 1..Len(effectData.nested)}

Next ==
  \/ \E n \in EffectNames, us \in TargetLists, sel \in Selections :
       \E c \in Choices(n), d \in DupOutcomes("a1") :
         ToggleEffect(n, us, IF us = <<>> THEN sel ELSE <<>>, c, d) /\ Bounded(MaxEffects)
  \/ \E n \in EffectNames, u \in Targets :
       \E c \in Choices(n), d \in DupOutcomes(u), h \in OnCanvas(n) :
         AddEffect(n, u, Undefined, 0, c, d, h) /\ Bounded(MaxEffects)
  \/ \E n \in EffectNames, u \in Targets, o \in {Undefined, Item} :
       \E c \in Choices(n) : RemoveEffect(n, u, o, c) /\ Bounded(MaxEffects)
  \/ \E e \in EffectDatas, u \in Targets, o \in {Undefined, Item} :
       \E c \in DataChoices(e), d \in DupOutcomes(u), h \in OnCanvas(e.name) :
         AddEffectWith(e, u, o, c, d, h) /\ Bounded(MaxEffects)
  \/ \E id \in {Bless, Aid, ProneId}, u \in Targets, o \in {Undefined, Item} :
       RelayRemoveEffect(id, u, o) /\ Bounded(MaxEffects)
  \/ \E us \in TargetLists \ {<<>>}, a \in Actives :
       \E d \in DupOutcomes("a1") :
         RelayToggleEffect(Prone, us, a, d) /\ Bounded(MaxEffects)

Spec == Init /\ [][Next]_vars

\* Composite effects: a parent with two catalog sub-effects, a parent whose
\* sub-effect has the name of a status effect, and the removal of each part.
CompositeNames == {Combo, Knock}
PartOrigins == {Undefined, getId(Combo), Item}

NextComposite ==
  \/ \E n \in CompositeNames, u \in Targets :
       \E d \in DupOutcomes(u), h \in OnCanvas(n) :
         AddEffect(n, u, Undefined, 0, Undefined, d, h) /\ Bounded(MaxComposite)
  \/ \E o \in PartOrigins :
       AddEffectWith(EffectData(Aid, "data", <<>>, <<>>), "a1", o, Undefined, "reject", TRUE)
         /\ Bounded(MaxComposite)
  \/ \E n \in {Combo, Aid}, o \in PartOrigins :
       RemoveEffect(n, "a1", o, Undefined) /\ Bounded(MaxComposite)
  \/ \E id \in {Aid, Ward, Knock, Prone}, o \in PartOrigins :
       RelayRemoveEffect(id, "a1", o) /\ Bounded(MaxComposite)

SpecComposite == Init /\ [][NextComposite]_vars

\* Exhaustion: the bare name, signed and unsigned numbers, with and without
\* the space, below 0 and above the highest level.
ExhaustionNames ==
  {Exhaustion,
   Exhaustion \o <<" ", "+", "2">>, Exhaustion \o <<" ", "-", "5">>,
   Exhaustion \o <<" ", "0">>, Exhaustion \o <<" ", "3">>,
   Exhaustion \o <<"+", "1">>, Exhaustion \o <<" ", " ", "-", "1">>,
   Exhaustion \o <<" ", "1", "0">>}

NextExhaustion ==
  \/ \E n \in ExhaustionNames :
       \E l \in Levels(n), d \in DupOutcomes("a1"), h \in OnCanvas(n) :
         AddEffect(n, "a1", Undefined, l, Undefined, d, h) /\ Bounded(MaxEffects)
  \/ \E d \in DupOutcomes("a1") :
       ToggleEffect(Exhaustion, <<"a1">>, <<>>, Undefined, d) /\ Bounded(MaxEffects)
  \/ RemoveEffect(Exhaustion, "a1", Undefined, Undefined) /\ Bounded(MaxEffects)

SpecExhaustion == Init /\ [][NextExhaustion]_vars

\* Status toggles over two actors in mixed states, through the interface
\* and, with active pinned, through the relay. An actor can hold an effect of
\* an item that sets the prone status.
Grease == <<"G", "r", "e", "a", "s", "e">>
ForeignGrease ==
  [_id |-> <<"g", "r", "e", "a", "s", "e">>, name |-> Grease, convenient |-> FALSE,
   origin |-> Item, disabled |-> FALSE, statuses |-> {"prone"},
   level |-> -1, original |-> -1, core |-> FALSE]

InitStatus ==
  /\ effects \in [Actors -> {<<>>, <<ForeignProne>>, <<ForeignGrease>>}]
  /\ setting \in {"none", "replace"}
  /\ last = NoOp
  /\ calls = [p \in Issuers |-> Idle]
  /\ stack = <<>>

StatusTargetLists == {<<"a1">>, <<"a2">>, <<"a1", "a2">>, <<"a1", Bogus, "a2">>}

NextStatus ==
  \/ \E us \in StatusTargetLists : \E d \in DupOutcomes(us[1]) :
       ToggleEffect(Prone, us, <<>>, Undefined, d) /\ Bounded(MaxEffects)
  \/ \E us \in StatusTargetLists, a \in {"true", "false"} : \E d \in DupOutcomes(us[1]) :
       RelayToggleEffect(Prone, us, a, d) /\ Bounded(MaxEffects)
  \/ \E u \in Actors : \E d \in DupOutcomes(u) :
       AddEffect(Prone, u, Undefined, 0, Undefined, d, TRUE) /\ Bounded(MaxEffects)

SpecStatus == InitStatus /\ [][NextStatus]_vars

\* Two issuers call addEffect of a status name on actor a1 at the same time.
\* A call is suspended at each relay round trip and while the platform
\* creates the record; the steps of the two calls interleave there.
ExhaustionPlusOne == Exhaustion \o <<" ", "+", "1">>
ConcurrentNames == {Prone, ExhaustionPlusOne}

\* actor.system.attributes.exhaustion: the level of the exhaustion instance
\* the actor holds, 0 without one.
ExhaustionLevelOf(list) ==
  LET held == {i \in 1..Len(list) : list[i]._id = ExhaustionId /\ list[i].level > 0}
  IN  IF held = {} THEN 0 ELSE list[CHOOSE i \in held : \A j \in held : j <= i].level

\* EffectInterface.addEffect up to its first relay call: it reads the actor's
\* level and applied effects on the issuer's side and builds the effect.
Submit(p, effectName) ==
  LET desc == isStatusEffect(setting, effectName)
      list == effects["a1"]
      held == {i \in Applied(list) : list[i]._id = desc.staticID}
      base == ExhaustionLevelOf(list)
      newExhaustionLevel ==
        IF desc.isExhaustion = False THEN -1
        ELSE NewExhaustionLevel(base, desc.isExhaustion)
      effect ==
        IF desc.isExhaustion = False
        THEN [fromStatusEffect(desc.id) EXCEPT !.convenient = TRUE]
        ELSE [fromStatusEffect(desc.id) EXCEPT
                !.convenient = TRUE, !.level = newExhaustionLevel, !.original = base,
                !.name = Exhaustion \o <<" ">> \o NumToString(newExhaustionLevel)]
  IN  /\ calls[p].pc = "idle"
      /\ desc.is
      /\ calls' = [calls EXCEPT ![p] =
                     [pc |-> IF held # {} \/ newExhaustionLevel = 0 THEN "remove" ELSE "add",
                      name |-> effectName, base |-> base, lvl |-> newExhaustionLevel,
                      heldId |-> IF held = {} THEN Undefined ELSE list[First(held)]._id,
                      effect |-> effect, threw |-> FALSE]]
      /\ UNCHANGED <<effects, setting, last, stack>>

\* executeAsGM('removeEffect', {effectID: effect?._id, uuid}) of addEffect
RelayedRemove(p) ==
  /\ calls[p].pc = "remove"
  /\ effects' = H_removeEffect(Start, calls[p].heldId, "a1", Undefined).eff
  /\ calls' = [calls EXCEPT ![p].pc = IF calls[p].lvl = 0 THEN "done" ELSE "add"]
  /\ UNCHANGED <<setting, last, stack>>

\* executeAsGM('addEffect', ...): EffectHandler.addEffect up to create
RelayedAdd(p) ==
  LET list == effects["a1"]
      existing == {i \in Applied(list) : list[i]._id = calls[p].effect._id}
  IN  /\ calls[p].pc = "add"
      /\ effects' = IF existing = {} THEN effects
                    ELSE H_removeEffect(Start, list[First(existing)]._id, "a1", Undefined).eff
      /\ calls' = [calls EXCEPT ![p].pc = "create"]
      /\ UNCHANGED <<setting, last, stack>>

\* ActiveEffect.implementation.create(effect, {parent, keepId: true}) lands
CreateLands(p, dup) ==
  LET w == Create(Start, Inputs(Undefined, dup, 0, <<>>, TRUE), "a1", calls[p].effect, TRUE)
  IN  /\ calls[p].pc = "create"
      /\ effects' = w.eff
      /\ calls' = [calls EXCEPT ![p].pc = "done", ![p].threw = w.threw]
      /\ UNCHANGED <<setting, last, stack>>

\* Both calls have returned; the issuers are free for the next calls.
Retire ==
  /\ \A p \in Issuers : calls[p].pc = "done"
  /\ calls' = [p \in Issuers |-> Idle]
  /\ UNCHANGED <<effects, setting, last, stack>>

NextConcurrent ==
  \/ \E p \in Issuers, n \in ConcurrentNames : Submit(p, n)
  \/ \E p \in Issuers : RelayedRemove(p) /\ Bounded(MaxEffects)
  \/ \E p \in Issuers : RelayedAdd(p) /\ Bounded(MaxEffects)
  \/ \E p \in Issuers : \E d \in DupOutcomes("a1") : CreateLands(p, d) /\ Bounded(MaxEffects)
  \/ Retire

SpecConcurrent == Init /\ [][NextConcurrent]_vars

\* One addEffect of a catalog effect, add invocation by add invocation:
\* EffectHandler.addEffect creates the effect and then awaits addEffectWith
\* for each of its sub-effects, which comes back to EffectHandler.addEffect
\* through the relay. A frame of the stack is an invocation that has not
\* returned: the effect it added and the sub-effect it is at.
Frame(effect) == [name |-> effect.name, subs |-> effect.subs, i |-> 1]
Top == stack[Len(stack)]
Replace(frames, frame) == SubSeq(frames, 1, Len(frames) - 1) \o <<frame>>
RecursionNames == {Loop, Combo}

\* EffectInterface.addEffect of a catalog effect without nested effects, and
\* EffectHandler.addEffect up to the loop over the sub-effects
BeginAdd(effectName) ==
  LET effect == findEffectByName(effectName)
      w == Create(Start, Inputs(Undefined, "reject", 0, <<>>, TRUE), "a1", effect, FALSE)
  IN  /\ stack = <<>>
      /\ ~isStatusEffect(setting, effectName).is
      /\ Found(effect) /\ ~hasNestedEffects(effect)
      /\ effects' = w.eff
      /\ stack' = <<Frame(effect)>>
      /\ UNCHANGED <<setting, last, calls>>

\* addEffectWith of the next sub-effect: a sub-effect with nested effects is
\* replaced by the one the dialog answers (none: it returns), and
\* EffectHandler.addEffect is entered for it.
AddSubEffect(choice) ==
  LET subEffect == Top.subs[Top.i]
      created == [subEffect EXCEPT !.origin = getId(Top.name), !.convenient = TRUE]
      x == Inputs(choice, "reject", 0, <<>>, TRUE)
      effect == IF hasNestedEffects(created)
                THEN getNestedEffectSelection(created, x)
                ELSE created
      parent == [Top EXCEPT !.i = @ + 1]
      w == Create(Start, x, "a1", effect, FALSE)
  IN  /\ stack # <<>> /\ Top.i <= Len(Top.subs)
      /\ ~isStatusEffect(setting, subEffect.name).is
      /\ IF Found(effect)
         THEN /\ effects' = w.eff
              /\ stack' = Append(Replace(stack, parent), Frame(effect))
         ELSE /\ effects' = effects
              /\ stack' = Replace(stack, parent)
      /\ UNCHANGED <<setting, last, calls>>

\* the loop over the sub-effects is through: the invocation returns
ReturnAdd ==
  /\ stack # <<>> /\ Top.i > Len(Top.subs)
  /\ stack' = SubSeq(stack, 1, Len(stack) - 1)
  /\ UNCHANGED <<effects, setting, last, calls>>

\* the effects are removed again (the relay's removeEffect, by name)
ClearEffect(effectID) ==
  /\ stack = <<>>
  /\ effects' = H_removeEffect(Start, effectID, "a1", Undefined).eff
  /\ effects' # effects
  /\ UNCHANGED <<setting, last, calls, stack>>

NextRecursion ==
  \/ \E n \in RecursionNames : BeginAdd(n) /\ Bounded(MaxComposite)
  \/ \E c \in {Undefined, Loop, Aid} : AddSubEffect(c) /\ Bounded(MaxComposite)
  \/ ReturnAdd
  \/ \E id \in {Loop, Combo, Aid, Ward} : ClearEffect(id)

SpecRecursion == Init /\ [][NextRecursion]_vars

\* ------------------------------------------------------------ claims
Target == last'.uuids[1]
InterfaceOps == {"toggleEffect", "addEffect", "addEffectWith", "removeEffect"}
CountId(list, id) == Cardinality({i \in 1..Len(list) : list[i]._id = id})
ForeignOf(list) == SelectSeq(list, LAMBDA e : ~e.core)
CatalogNames ==
  {AllEffects[i].name : i \in 1..Len(AllEffects)} \cup
  {CustomEffects[i].name : i \in 1..Len(CustomEffects)}
StatusNames == {StatusEffects[i].name : i \in 1..Len(StatusEffects)}
\* A name of a catalog effect that is no status effect and has no nested effects.
PlainCatalogName(effectName) ==
  /\ effectName \in CatalogNames
  /\ ~isStatusEffect(setting, effectName).is
  /\ ~hasNestedEffects(findEffectByName(effectName))
\* A name in neither catalog that does not parse to a registered status name.
UnknownName(effectName) ==
  /\ effectName \notin CatalogNames
  /\ RegexMatch(effectName).word \notin StatusNames

\* C1: toggling a non-status, non-nested catalog effect twice in succession on
\* one actor leaves the effect applied exactly if it was applied before the
\* first of the two toggles.
C1_ToggleTwiceRestores ==
  [][(/\ last.op = "toggleEffect" /\ last'.op = "toggleEffect"
      /\ last'.name = last.name /\ last'.uuids = last.uuids
      /\ Len(last.uuids) = 1 /\ Resolves(last.uuids[1])
      /\ PlainCatalogName(last.name)
      /\ ~last.threw /\ ~last'.threw)
     => (hasEffectApplied(effects', last.name, last.uuids[1])
           <=> last.uuids[1] \in last.before)]_vars

\* C2: when addEffect of a (non-exhaustion) status completes on an actor that
\* already holds an instance with the status's fixed identity token, created
\* by an earlier operation of this module, the actor holds exactly one
\* instance with that token afterwards.
C2_StatusAddLeavesExactlyOne ==
  [][(/\ last'.op = "addEffect" /\ last'.path = "status" /\ ~last'.threw
      /\ \E i \in 1..Len(effects[Target]) :
           /\ effects[Target][i]._id = isStatusEffect(setting, last'.name).staticID
           /\ effects[Target][i].core)
     => CountId(effects'[Target], isStatusEffect(setting, last'.name).staticID) = 1]_vars

\* C3: every effect record created by an operation of this module carries the
\* is-convenient marker.
C3_CreatedEffectsAreConvenient ==
  \A a \in Actors : \A i \in 1..Len(effects[a]) :
    effects[a][i].core => isConvenient(effects[a][i])

\* C4: no operation deletes, or changes, an effect record that this module did
\* not create: every actor's foreign records are the same after every step.
C4_ForeignEffectsUntouched ==
  [][\A a \in Actors : ForeignOf(effects'[a]) = ForeignOf(effects[a])]_vars

\* The identifier a removal looks for: the relay's own argument, or the one
\* removeEffect derives from the name it is given.
RemovedIdentifier ==
  IF last'.op = "removeEffect" /\ isStatusEffect(setting, last'.name).is
  THEN isStatusEffect(setting, last'.name).staticID
  ELSE last'.name
MatchesIdentifier(e, id) == isConvenient(e) /\ (e._id = id \/ e.name = id)
RemovalReachesHandler ==
  \/ last'.op = "relay.removeEffect"
  \/ /\ last'.op = "removeEffect"
     /\ \/ isStatusEffect(setting, last'.name).is
        \/ /\ last'.name \in CatalogNames
           /\ ~hasNestedEffects(findEffectByName(last'.name))

\* C5: a removal with an origin that is the origin of no applied convenient
\* effect matching the identifier on the actor changes no effect record,
\* throws nothing and reports nothing, also when a convenient effect with the
\* matching name or identity token and another origin is there.
C5_RemoveWithOtherOriginIsNoOp ==
  [][(/\ RemovalReachesHandler
      /\ Truthy(last'.origin) /\ Resolves(Target)
      /\ ~\E i \in Applied(effects[Target]) :
            /\ MatchesIdentifier(effects[Target][i], RemovedIdentifier)
            /\ effects[Target][i].origin = last'.origin)
     => /\ effects' = effects
        /\ ~last'.threw
        /\ last'.notes = <<>>]_vars

\* C5 witness: a removal with an origin reached the relay and changed
\* nothing, on an actor that holds an applied convenient effect of the name
\* with another origin.
C5_Witness ==
  /\ last.op \in {"removeEffect", "relay.removeEffect"}
  /\ Truthy(last.origin) /\ last.relays = <<"removeEffect">>
  /\ ~last.changed /\ ~last.threw
  /\ \E i \in Applied(effects["a1"]) :
       /\ MatchesIdentifier(effects["a1"][i], last.name)
       /\ Truthy(effects["a1"][i].origin)
       /\ effects["a1"][i].origin # last.origin

\* C6: toggleEffect, addEffect and removeEffect of a name that is in neither
\* catalog and parses to no status name change no effect record and issue no
\* relay call; they report the not-found error, and nothing else, whenever the
\* operation has a target to work on (toggleEffect with no target at all
\* reports that instead).
C6_UnknownNameIsNotFound ==
  [][(last'.op \in {"toggleEffect", "addEffect", "removeEffect"} /\ UnknownName(last'.name))
     => /\ effects' = effects
        /\ last'.relays = <<>>
        /\ last'.op = "toggleEffect" =>
             /\ ~last'.threw
             /\ last'.notes = IF last'.uuids = <<>> THEN <<"noTarget">> ELSE <<"notFound">>
        /\ (last'.op = "addEffect" /\ Resolves(Target)) =>
             ~last'.threw /\ last'.notes = <<"notFound">>
        /\ last'.op = "removeEffect" => ~last'.threw /\ last'.notes = <<"notFound">>]_vars

\* C6 witness: an unknown name was reported as not found on an actor that
\* holds effect records.
C6_Witness ==
  /\ last.op \in {"toggleEffect", "addEffect", "removeEffect"}
  /\ UnknownName(last.name)
  /\ last.notes = <<"notFound">>
  /\ last.uuids # <<>> /\ Resolves(last.uuids[1]) /\ effects[last.uuids[1]] # <<>>

\* C7: an operation whose target list is empty, or holds a UUID that resolves
\* to no actor, reports it as a notification, throws nothing, issues no relay
\* call and changes no effect record.
C7_UnresolvedTargetsAbortCleanly ==
  [][(/\ last'.op \in InterfaceOps
      /\ ~hasNestedEffects(findEffectByName(last'.name))
      /\ \/ last'.uuids = <<>>
         \/ \E i \in 1..Len(last'.uuids) : ~Resolves(last'.uuids[i]))
     => /\ ~last'.threw
        /\ last'.notes # <<>>
        /\ last'.relays = <<>>
        /\ effects' = effects]_vars

\* The level the exhaustion rule gives for the current level c and the delta
\* of the name, written from the rule and not from the code.
ClaimedLevel(c, delta) ==
  IF delta = Undefined THEN Min(c + 1, MaxLevel)
  ELSE IF delta[1] = "+" THEN Clamped(c + DigitsValue(Tail(delta)), 0, MaxLevel)
  ELSE IF delta[1] = "-" THEN Clamped(c - DigitsValue(Tail(delta)), 0, MaxLevel)
  ELSE Clamped(DigitsValue(delta), 0, MaxLevel)

\* C8: the level addEffect computes for an exhaustion name is min(c+1,
\* MaxLevel) without a delta, clamp(c + signed value) for a delta with a sign
\* and clamp(value) for an unsigned delta; it lies in 0..MaxLevel, and a
\* level above 0 is the level of the instance the operation creates.
C8_ExhaustionLevel ==
  (last.op = "addEffect" /\ last.path = "exhaustion")
    => /\ last.lvl = ClaimedLevel(last.exhaustion, RegexMatch(last.name).number)
       /\ last.lvl \in 0..MaxLevel
       /\ (last.lvl > 0 /\ ~last.threw) =>
            \E i \in 1..Len(effects["a1"]) :
              /\ effects["a1"][i]._id = ExhaustionId
              /\ effects["a1"][i].level = last.lvl

\* C8 witness: at level 2, "Exhaustion +2" gave level 4 and an instance of it.
C8_Witness ==
  /\ last.op = "addEffect" /\ last.path = "exhaustion" /\ ~last.threw
  /\ last.exhaustion = 2
  /\ RegexMatch(last.name).number = <<"+", "2">>
  /\ last.lvl = 4
  /\ \E i \in 1..Len(effects["a1"]) : effects["a1"][i].level = 4

\* C9: when addEffect of an exhaustion name computes level 0, it issues a
\* removal and no creation, and the actor holds no exhaustion instance after.
C9_LevelZeroLeavesNoExhaustion ==
  (last.op = "addEffect" /\ last.path = "exhaustion" /\ last.lvl = 0 /\ ~last.threw)
    => /\ last.relays = <<"removeEffect">>
       /\ ~\E i \in 1..Len(effects["a1"]) : effects["a1"][i]._id = ExhaustionId

\* C10: addEffect of a composite effect with n sub-effects adds n+1 records,
\* the parent and then each sub-effect; every sub-effect record has the
\* identifier derived from the parent's name as its origin; and each of the
\* n+1 records can be removed by removeEffect with the others left in place.
C10_CompositeAddsParentAndSubEffects ==
  [][(/\ last'.op = "addEffect" /\ ~last'.threw /\ Resolves(Target)
      /\ Found(findEffectByName(last'.name))
      /\ Len(findEffectByName(last'.name).subs) > 0)
     => LET def == findEffectByName(last'.name)
            n == Len(def.subs)
            old == effects[Target]
            new == effects'[Target]
        IN  /\ Len(new) = Len(old) + n + 1
            /\ new[Len(old) + 1].name = def.name
            /\ \A k \in 1..n :
                 /\ new[Len(old) + 1 + k].name = def.subs[k].name
                 /\ new[Len(old) + 1 + k].origin = getId(def.name)
            /\ \A j \in (Len(old) + 1)..Len(new) :
                 \E id \in {new[j].name, new[j]._id}, o \in {Undefined, new[j].origin} :
                   H_removeEffect([Start EXCEPT !.eff = effects'], id, Target, o).eff[Target]
                     = RemoveAt(new, j)]_vars

\* The operations registered with the relay.
RegisteredFunctions == {"toggleEffect", "addEffect", "removeEffect"}

\* C11: a step that creates or deletes an effect record is the work of an
\* operation that went through the relay: the operations of the interface
\* change no record without a relay call, and the calls they issue are the
\* registered ones.
C11_MutationsGoThroughRelay ==
  [][/\ effects' # effects => last'.relays # <<>>
     /\ \A i \in 1..Len(last'.relays) : last'.relays[i] \in RegisteredFunctions]_vars

\* C11 witness: an operation of the interface changed the records of an actor
\* and had called the relay.
C11_Witness ==
  /\ last.op \in InterfaceOps /\ last.changed /\ ~last.threw
  /\ last.relays # <<>>

\* What the classification rule says of a name: the setting is "none" and
\* the word of the name is a registered status name.
StatusClassified(effectName) ==
  setting = "none" /\ RegexMatch(effectName).word \in StatusNames
StatusToken(effectName) ==
  StatusEffects[CHOOSE i \in 1..Len(StatusEffects) :
                  StatusEffects[i].name = RegexMatch(effectName).word]._id

\* C13: with the setting "none" a name that parses to a registered status
\* name takes the status path, also when a catalog effect has the name; with
\* another setting no name takes it and only the catalog lookup applies.
\* addEffect of such a name creates the record with the status's fixed
\* token exactly under the setting "none".
C13_ClassificationFollowsSetting ==
  /\ (last.op \in {"toggleEffect", "addEffect", "removeEffect"} /\ last.path # "")
       => /\ StatusClassified(last.name) => last.path \in {"status", "exhaustion"}
          /\ ~StatusClassified(last.name) =>
               last.path \in {"custom", "builtin"} /\ last.name \in CatalogNames
  /\ (/\ last.op = "addEffect" /\ last.changed /\ ~last.threw
      /\ last.name \in (StatusNames \cap CatalogNames) \ {Exhaustion})
       => LET list == effects[last.uuids[1]]
          IN  (list[Len(list)]._id = StatusToken(last.name)) <=> (setting = "none")

\* C13 witness: under "none", addEffect of a name that is both a status name
\* and a catalog name took the status path and created the record.
C13_Witness ==
  /\ setting = "none" /\ last.op = "addEffect" /\ last.name = Prone
  /\ Prone \in CatalogNames /\ last.path = "status"
  /\ last.changed /\ ~last.threw

InCustom(effectName) == \E i \in 1..Len(CustomEffects) : CustomEffects[i].name = effectName
InBuiltin(effectName) == \E i \in 1..Len(AllEffects) : AllEffects[i].name = effectName
\* The name the catalog lookup ends with: the dialog's answer for an effect
\* with nested effects.
ResolvedName ==
  IF hasNestedEffects(findEffectByName(last.name)) THEN last.choice ELSE last.name

\* C14: findEffectByName gives the custom definition of a name the custom
\* catalog has, the built-in definition of a name only the built-in catalog
\* has, and nothing for a name neither has; an operation that takes the
\* catalog path works with the definition of that catalog.
C14_CustomCatalogPreferred ==
  /\ \A n \in EffectNames \cup CompositeNames :
       /\ InCustom(n) => findEffectByName(n).cat = "custom"
       /\ (~InCustom(n) /\ InBuiltin(n)) => findEffectByName(n).cat = "builtin"
       /\ (InCustom(n) \/ InBuiltin(n)) => findEffectByName(n).name = n
       /\ (~InCustom(n) /\ ~InBuiltin(n)) => ~Found(findEffectByName(n))
  /\ (/\ last.op \in {"toggleEffect", "addEffect", "removeEffect"}
      /\ last.path \notin {"", "status", "exhaustion"})
       => last.path = IF InCustom(ResolvedName) THEN "custom" ELSE "builtin"

\* C14 witness: an operation on a name both catalogs have took the custom
\* definition and added it.
C14_Witness ==
  /\ last.op \in {"toggleEffect", "addEffect"} /\ last.name = Bless
  /\ InCustom(Bless) /\ InBuiltin(Bless)
  /\ last.path = "custom" /\ last.changed

\* The operation came to the selection prompt of an effect with nested
\* effects.
PromptShown ==
  /\ last'.op \in InterfaceOps
  /\ ~StatusClassified(last'.name)
  /\ hasNestedEffects(findEffectByName(last'.name))
  /\ last'.op = "toggleEffect" => last'.uuids # <<>>
  /\ last'.op = "addEffect" => Resolves(Target)

\* C19: when the selection prompt of an effect with nested effects is
\* dismissed, toggleEffect, addEffect, removeEffect and addEffectWith return
\* silently: no notification, no relay call, no exception and no change of
\* any actor's effects.
C19_DismissedPromptIsSilent ==
  [][(PromptShown /\ last'.choice = Undefined)
     => /\ last'.notes = <<>>
        /\ last'.relays = <<>>
        /\ ~last'.threw
        /\ effects' = effects]_vars

\* C19 witness: the prompt of an effect with nested effects was dismissed in
\* an operation on a resolvable actor that holds effects, and nothing
\* happened.
C19_Witness ==
  /\ last.op \in InterfaceOps
  /\ hasNestedEffects(findEffectByName(last.name)) /\ last.choice = Undefined
  /\ last.uuids # <<>> /\ Resolves(last.uuids[1]) /\ effects[last.uuids[1]] # <<>>
  /\ last.notes = <<>> /\ last.relays = <<>> /\ ~last.changed

\* The resolvable targets of the operation.
ResolvedTargets == {last'.uuids[i] : i \in {j \in 1..Len(last'.uuids) : Resolves(last'.uuids[j])}}
\* The actor holds the instance with the fixed token of the status.
HasToken(list, effectName) == \E i \in 1..Len(list) : list[i]._id = StatusToken(effectName)
\* The actor holds an effect whose only status is the status of the name.
StatusIdOf(effectName) ==
  StatusEffects[CHOOSE i \in 1..Len(StatusEffects) :
                  StatusEffects[i].name = RegexMatch(effectName).word].id
HasStatus(list, effectName) ==
  \E i \in 1..Len(list) : list[i].statuses = {StatusIdOf(effectName)}

\* C15: toggleEffect of a status name (active left undefined) flips the
\* status on every resolvable target by itself: the instance with the
\* status's fixed token is there after the call exactly if it was not there
\* before, and nothing is thrown.
C15_StatusToggleFlipsEachTarget ==
  [][(last'.op = "toggleEffect" /\ StatusClassified(last'.name))
     => /\ ~last'.threw
        /\ \A t \in ResolvedTargets :
             HasToken(effects'[t], last'.name) <=> ~HasToken(effects[t], last'.name)]_vars

RemovalMatches(list, id, origin) ==
  {i \in 1..Len(list) :
     /\ ~list[i].disabled /\ list[i].convenient
     /\ (list[i]._id = id \/ list[i].name = id)
     /\ (origin \in {Undefined, Null} \/ list[i].origin = origin)}

\* C18: a removal deletes the first effect of the actor that matches, and
\* only that one: every other effect stays as it is, in its place, and with
\* no match nothing changes and nothing is thrown or reported.
C18_RemoveDeletesFirstMatchOnly ==
  [][(RemovalReachesHandler /\ Resolves(Target))
     => LET list == effects[Target]
            hits == RemovalMatches(list, RemovedIdentifier, last'.origin)
            first == CHOOSE i \in hits : \A j \in hits : i <= j
        IN  /\ ~last'.threw /\ last'.notes = <<>>
            /\ \A a \in Actors \ {Target} : effects'[a] = effects[a]
            /\ effects'[Target] =
                 IF hits = {} THEN list
                 ELSE SubSeq(list, 1, first - 1) \o SubSeq(list, first + 1, Len(list))]_vars

\* C18 witness: a removal deleted an effect of an actor that still holds
\* another effect matching the same identifier and origin.
C18_Witness ==
  /\ last.op \in {"removeEffect", "relay.removeEffect"}
  /\ last.changed /\ ~last.threw
  /\ RemovalMatches(effects["a1"], last.name, last.origin) # {}

\* C20: when addEffect of an exhaustion name computes a level L above 0 on an
\* actor at level c and completes, the actor holds exactly one exhaustion
\* instance: it is named after the level, marked convenient, and stamped
\* with the level L and the original level c.
C20_ExhaustionInstanceReplaced ==
  (last.op = "addEffect" /\ last.path = "exhaustion" /\ last.lvl > 0 /\ ~last.threw)
    => LET list == effects["a1"]
           held == {i \in 1..Len(list) : list[i]._id = ExhaustionId}
       IN  /\ Cardinality(held) = 1
           /\ \A i \in held :
                /\ list[i].name = Exhaustion \o <<" ">> \o NumToString(last.lvl)
                /\ list[i].convenient
                /\ list[i].level = last.lvl
                /\ list[i].original = last.exhaustion

\* C12: when the two issuers' addEffect calls of one status name on the actor
\* have both completed, the actor holds exactly one instance of the status,
\* and after two "Exhaustion +1" its level is the lower of the levels the
\* calls started from, plus 2, capped at MaxLevel: what the calls give one
\* after the other.
C12_ConcurrentAddsSerialize ==
  (/\ \A p \in Issuers : calls[p].pc = "done" /\ ~calls[p].threw
   /\ calls["p1"].name = calls["p2"].name)
    => /\ CountId(effects["a1"], StatusToken(calls["p1"].name)) = 1
       /\ calls["p1"].name = ExhaustionPlusOne
            => ExhaustionLevelOf(effects["a1"]) =
                 Min(Min(calls["p1"].base, calls["p2"].base) + 2, MaxLevel)

\* The applied effects of the name that carry the convenient marker.
ConvenientNamed(list, effectName) ==
  {i \in 1..Len(list) :
     list[i].name = effectName /\ list[i].convenient /\ ~list[i].disabled}

\* C22: for a catalog effect E that is no status effect and has no nested
\* effects, hasEffectApplied(E, actor) is true after addEffect(E) has
\* completed on the actor, false after removeEffect(E) without origin has
\* completed on an actor that held one instance of E, and true in no state
\* in which the actor holds no applied convenient effect of the name.
C22_HasEffectAppliedAgrees ==
  [][/\ (/\ last'.op = "addEffect" /\ PlainCatalogName(last'.name)
         /\ Resolves(Target) /\ ~last'.threw)
          => hasEffectApplied(effects', last'.name, Target)
     /\ (/\ last'.op = "removeEffect" /\ PlainCatalogName(last'.name)
         /\ last'.origin = Undefined /\ Resolves(Target) /\ ~last'.threw
         /\ Cardinality(ConvenientNamed(effects[Target], last'.name)) = 1)
          => ~hasEffectApplied(effects', last'.name, Target)
     /\ \A a \in Actors, n \in EffectNames :
          hasEffectApplied(effects', n, a) => ConvenientNamed(effects'[a], n) # {}]_vars

\* C22 witness: removeEffect removed the one instance of an effect that
\* addEffect had added, hasEffectApplied is false, and the actor still holds
\* a foreign effect of the same name.
C22_Witness ==
  /\ last.op = "removeEffect" /\ last.name = Bless /\ last.origin = Undefined
  /\ last.uuids = <<"a1">> /\ last.changed /\ ~last.threw
  /\ ~hasEffectApplied(effects, Bless, "a1")
  /\ \E i \in 1..Len(effects["a1"]) :
       effects["a1"][i].name = Bless /\ ~effects["a1"][i].convenient

\* C21: the add invocations of one addEffect nest to a bounded depth: no
\* effect definition is entered again below an invocation of itself that
\* has not returned, so the depth never exceeds the number of definitions.
C21_NoDefinitionReentered ==
  \A i, j \in 1..Len(stack) : i # j => stack[i].name # stack[j].name

====
